---- MODULE Spec2Model ----
(***************************************************************************)
(* A model of the queryplot pipeline: the code generator (the fallback     *)
(* fragments and the fence stripping of generate_analysis_code), the       *)
(* executor (safe_execute_code and the output.png artifact), the callers'  *)
(* result handling (app.py and main()) and the app's API key session.      *)
(*                                                                         *)
(* Text is a sequence of one-character strings, so that slicing, stripping *)
(* and quoting are computed character by character as Python does.         *)
(***************************************************************************)
EXTENDS Integers, Sequences, FiniteSets, TLC

VARIABLES
    file,      \* output.png in the working directory
    orphans,   \* the bytes of files that lost their name while held open
    inv,       \* per session: the position and data of its pipeline run
    gen,       \* one call of generate_analysis_code: inputs and return value
    fence,     \* a response body, and the generator's output with and without fencing
    session,   \* st.session_state and the widgets of one app session
    calls      \* the pipeline invocations the app session has made

vars == <<file, orphans, inv, gen, fence, session, calls>>

-----------------------------------------------------------------------------
(* Bounds of the model.                                                    *)

\* longest failure message (str(e)) of a failing endpoint
MaxMsg == 3
\* longest response body wrapped in a fence
MaxBody == 3
\* longest content written to output.png
MaxBytes == 2

-----------------------------------------------------------------------------
(* Text helpers: Python's str operations.                                  *)

\* all sequences over S of length 0..n
SeqsUpTo(S, n) == UNION {[1..k -> S] : k \in 0..n}

\* The characters str.strip() removes when given no argument: those for
\* which str.isspace() holds. The ones a TLA+ string cannot hold are
\* written by name: VT is \x0b, FS GS RS US are \x1c to \x1f, NEL is \x85,
\* NBSP is \xa0, the others are named by their code point.
Whitespace ==
    {" ", "\t", "\n", "\r", "\f", "VT", "FS", "GS", "RS", "US", "NEL", "NBSP",
     "U+1680", "U+2000", "U+2001", "U+2002", "U+2003", "U+2004", "U+2005",
     "U+2006", "U+2007", "U+2008", "U+2009", "U+200A", "U+2028", "U+2029",
     "U+202F", "U+205F", "U+3000"}

\* The grave accent character of a markdown fence. The TLA+ lexer does not
\* accept that character inside a string, so it is written by name.
Backtick == "grave"

\* s[n:]
DropFirst(s, n) == IF n >= Len(s) THEN <<>> ELSE SubSeq(s, n + 1, Len(s))

\* s.startswith(p)
StartsWith(s, p) == Len(s) >= Len(p) /\ SubSeq(s, 1, Len(p)) = p

\* s.lstrip(chars)
RECURSIVE LStripChars(_, _)
LStripChars(s, chars) ==
    IF s # <<>> /\ Head(s) \in chars THEN LStripChars(Tail(s), chars) ELSE s

\* s.rstrip(chars)
RECURSIVE RStripChars(_, _)
RStripChars(s, chars) ==
    IF s # <<>> /\ s[Len(s)] \in chars
    THEN RStripChars(SubSeq(s, 1, Len(s) - 1), chars)
    ELSE s

\* s.strip(chars)
StripChars(s, chars) == RStripChars(LStripChars(s, chars), chars)

\* s.strip()
Strip(s) == StripChars(s, Whitespace)

\* needle in hay
Contains(hay, needle) ==
    \E i \in 0..(Len(hay) - Len(needle)) :
        SubSeq(hay, i + 1, i + Len(needle)) = needle

-----------------------------------------------------------------------------
(* The code generator: generate_analysis_code.                             *)

\* f"print('Error configuring AI model: {e}')" up to the {e}
ConfigPrefix ==
    <<"p", "r", "i", "n", "t", "(", "'", "E", "r", "r", "o", "r", " ", "c",
      "o", "n", "f", "i", "g", "u", "r", "i", "n", "g", " ", "A", "I", " ",
      "m", "o", "d", "e", "l", ":", " ">>

\* f"print('Error calling AI model: {e}')" up to the {e}
CallPrefix ==
    <<"p", "r", "i", "n", "t", "(", "'", "E", "r", "r", "o", "r", " ", "c",
      "a", "l", "l", "i", "n", "g", " ", "A", "I", " ", "m", "o", "d", "e",
      "l", ":", " ">>

\* the text after the {e} in both fallback fragments
FragmentSuffix == <<"'", ")">>

\* str(ValueError("API key is missing."))
MissingKeyMessage ==
    <<"A", "P", "I", " ", "k", "e", "y", " ", "i", "s", " ", "m", "i", "s",
      "s", "i", "n", "g", ".">>

\* the marker generated_code.strip().startswith(...) looks for
FenceMarker ==
    <<Backtick, Backtick, Backtick, "p", "y", "t", "h", "o", "n">>

\* the number of characters the slice [9:] drops
FenceSkip == 9

\* the f-string of a fallback fragment: the message is inserted as it is
Fallback(prefix, msg) == prefix \o msg \o FragmentSuffix

\* the clean-up of the model's response text
PostProcess(text) ==
    IF StartsWith(Strip(text), FenceMarker)
    THEN Strip(StripChars(DropFirst(Strip(text), FenceSkip), {Backtick}))
    ELSE text

\* An endpoint is what the SDK does in this call: configure and
\* GenerativeModel raise an Exception with message msg or not, and
\* generate_content / response.text raise one or give the response text.
Endpoint(configure, call, msg, response) ==
    [configure |-> configure, call |-> call, msg |-> msg, response |-> response]

\* generate_analysis_code(user_prompt, df_schema, df_head, api_key): the
\* returned string (the prompt texts only reach the endpoint)
GenerateAnalysisCode(api_key, ep) ==
    IF api_key = <<>> THEN Fallback(ConfigPrefix, MissingKeyMessage)
    ELSE IF ep.configure = "raise" THEN Fallback(ConfigPrefix, ep.msg)
    ELSE IF ep.call = "raise" THEN Fallback(CallPrefix, ep.msg)
    ELSE PostProcess(ep.response)

-----------------------------------------------------------------------------
(* What Python makes of a fallback fragment: print( string literals ).     *)
(* The reader below is Python's tokenizer for the characters a fragment of *)
(* the model can hold: the fixed texts, and messages over MsgChars.        *)

\* the characters of a failure message: a plain one, the quote the
\* fragment's literal is delimited by, a line break and the escape character
MsgChars == {"e", "'", "\n", "\\"}

\* the call a fallback fragment opens with
PrintCall == <<"p", "r", "i", "n", "t", "(">>

\* the least position from i on that holds one of chars, or 0
NextOf(s, i, chars) ==
    IF \E j \in i..Len(s) : s[j] \in chars
    THEN CHOOSE j \in i..Len(s) :
             s[j] \in chars /\ \A k \in i..(j - 1) : s[k] \notin chars
    ELSE 0

\* Reads s from position i. mode: "args" between the literals of the call,
\* "str" inside a one-quote literal, "triple" inside a three-quote literal.
\* out is the value of the literals read so far (adjacent literals are
\* concatenated). Gives [ok |-> the fragment compiles, out |-> the text
\* print receives]. Inside a literal the reader moves from one quote,
\* backslash or line break to the next, taking the characters between as
\* they are.
RECURSIVE ReadFragment(_, _, _, _)
ReadFragment(s, i, mode, out) ==
    LET n == Len(s)
        bad == [ok |-> FALSE, out |-> out]
        j == NextOf(s, i, {"'", "\\", "\n"})
        got == IF j = 0 THEN out ELSE out \o SubSeq(s, i, j - 1)
    IN
    IF i > n THEN bad  \* unterminated literal, or the call is never closed
    ELSE IF mode = "args" THEN
        IF s[i] = "'" THEN
            IF i + 2 <= n /\ s[i + 1] = "'" /\ s[i + 2] = "'"
            THEN ReadFragment(s, i + 3, "triple", out)
            ELSE IF i + 1 <= n /\ s[i + 1] = "'"
            THEN ReadFragment(s, i + 2, "args", out)  \* the empty literal
            ELSE ReadFragment(s, i + 1, "str", out)
        ELSE IF s[i] = ")" THEN [ok |-> i = n, out |-> out]
        ELSE IF s[i] \in {" ", "\n"} THEN ReadFragment(s, i + 1, "args", out)
        ELSE IF s[i] = "\\" THEN
            \* a line continuation, and nothing else
            IF i + 1 <= n /\ s[i + 1] = "\n"
            THEN ReadFragment(s, i + 2, "args", out)
            ELSE bad
        ELSE bad  \* a name next to a literal
    ELSE IF j = 0 THEN bad  \* the literal is never closed
    ELSE IF s[j] = "\\" THEN
        IF j + 1 > n THEN bad
        ELSE IF s[j + 1] = "\n" THEN ReadFragment(s, j + 2, mode, got)
        ELSE IF s[j + 1] \in {"'", "\\"}
        THEN ReadFragment(s, j + 2, mode, Append(got, s[j + 1]))
        ELSE ReadFragment(s, j + 2, mode, got \o <<"\\", s[j + 1]>>)
    ELSE IF mode = "str" THEN
        IF s[j] = "'" THEN ReadFragment(s, j + 1, "args", got)
        ELSE bad  \* a line break ends the line with the literal unclosed
    ELSE \* mode = "triple"
        IF s[j] = "'" /\ j + 2 <= n /\ s[j + 1] = "'" /\ s[j + 2] = "'"
        THEN ReadFragment(s, j + 3, "args", got)
        ELSE ReadFragment(s, j + 1, "triple", Append(got, s[j]))

\* compile(fragment), and the text its print would receive
Compile(fragment) ==
    IF StartsWith(fragment, PrintCall)
    THEN ReadFragment(fragment, Len(PrintCall) + 1, "args", <<>>)
    ELSE [ok |-> FALSE, out |-> <<>>]

\* the fragment is syntactically executable
Executable(fragment) == Compile(fragment).ok

\* the text the fragment prints when it is executable
Printed(fragment) == Compile(fragment).out

\* the fragment is one line
SingleLine(fragment) == \A i \in 1..Len(fragment) : fragment[i] # "\n"

-----------------------------------------------------------------------------
(* The executor: safe_execute_code and the artifact output.png.            *)

\* the sessions that share the working directory
Procs == {1, 2}

\* the values of a byte the model uses
ByteVals == {0, 255}

\* the contents code can write to output.png
Contents == SeqsUpTo(ByteVals, MaxBytes)

\* output.png: absent, a regular file, or something open() cannot read (a
\* directory). ino tells the files that had this name apart (the session
\* whose open created the file; 0: none): a session that holds the file open
\* for writing writes to the file it opened, also when output.png has been
\* removed meanwhile.
Absent == [kind |-> "absent", data |-> <<>>, ino |-> 0]
RegularFile(d, i) == [kind |-> "file", data |-> d, ino |-> i]
Directory == [kind |-> "dir", data |-> <<>>, ino |-> 0]

\* What a piece of generated code does when exec runs it: what it does to
\* output.png (nothing; "write": open it for writing, write data and close
\* it; "hold": open it for writing and write data to a handle it keeps in
\* a variable; os.remove it; os.mkdir it) and how it ends after that when
\* the file operation did not raise: normally, with an exception that
\* derives from Exception (ValueError; SyntaxError, raised before any
\* statement runs) or with one that does not (SystemExit).
\*
\* The handle of a "hold" is buffered: its bytes reach output.png when the
\* handle is dropped with execution_globals, as safe_execute_code returns.
\* When the exception leaves safe_execute_code, the traceback keeps the
\* handle until the caller is done with it, so a "hold" ends normally or
\* with an exception that is caught.
Program(write, data, end) == [write |-> write, data |-> data, end |-> end]

Programs ==
    {Program("none", <<>>, e) : e \in {"ok", "ValueError", "SyntaxError", "SystemExit"}}
    \cup {Program(w, <<>>, e) : w \in {"delete", "mkdir"},
                                e \in {"ok", "ValueError", "SystemExit"}}
    \cup {Program("write", d, e) : d \in Contents,
                                   e \in {"ok", "ValueError", "SystemExit"}}
    \cup {Program("hold", d, e) : d \in Contents \ {<<>>},
                                  e \in {"ok", "ValueError"}}

\* the exception classes "except Exception" catches
IsException(end) ==
    end \in {"ValueError", "SyntaxError", "IsADirectoryError",
             "FileNotFoundError", "FileExistsError"}

\* what exec makes of a fallback fragment: it prints, or it does not compile
Interpret(fragment) ==
    IF Executable(fragment)
    THEN Program("none", <<>>, "ok")
    ELSE Program("none", <<>>, "SyntaxError")

\* The outcome of a call on output.png: the file afterwards and the
\* exception raised ("none": the call returned).
Done(f) == [file |-> f, raised |-> "none"]
Raised(f, exc) == [file |-> f, raised |-> exc]

\* Faulty variant for C9: the open for writing leaves the bytes of an
\* existing file in place (mode "r+b"), so that what an earlier run wrote
\* shows behind a shorter write.
OpenForWriteKeepsData(f, p) ==
    CASE f.kind = "file" -> Done(f)
      [] f.kind = "absent" -> Done(RegularFile(<<>>, p))
      [] f.kind = "dir" -> Raised(f, "IsADirectoryError")

\* open("output.png", "wb") in session p: an existing file is emptied, and
\* stays the file it was; a directory cannot be opened; otherwise a file is
\* created
OpenForWrite(f, p) ==
    CASE f.kind = "file" -> Done([f EXCEPT !.data = <<>>])
      [] f.kind = "absent" -> Done(RegularFile(<<>>, p))
      [] f.kind = "dir" -> Raised(f, "IsADirectoryError")

\* os.remove("output.png")
Remove(f) ==
    CASE f.kind = "file" -> Done(Absent)
      [] f.kind = "absent" -> Raised(f, "FileNotFoundError")
      [] f.kind = "dir" -> Raised(f, "IsADirectoryError")

\* os.mkdir("output.png")
Mkdir(f) ==
    IF f.kind = "absent" THEN Done(Directory) ELSE Raised(f, "FileExistsError")

\* the bytes of a file after chunk is written at offset off: a gap between
\* the end of the file and the offset reads as zeros
Overwrite(data, off, chunk) ==
    LET padded == IF Len(data) < off
                  THEN data \o [i \in 1..(off - Len(data)) |-> 0]
                  ELSE data
        last == off + Len(chunk)
        n == IF Len(padded) > last THEN Len(padded) ELSE last
    IN [i \in 1..n |-> IF i > off /\ i <= last THEN chunk[i - off] ELSE padded[i]]

\* output.png after a session that opened file ino writes chunk at off
WriteAt(f, ino, off, chunk) ==
    IF f.kind = "file" /\ f.ino = ino
    THEN [f EXCEPT !.data = Overwrite(f.data, off, chunk)]
    ELSE f

\* the first thing the code of session p does to output.png: the open of a
\* write, or the one call of the other programs
FirstCall(prog, f, p) ==
    CASE prog.write = "none" -> Done(f)
      [] prog.write \in {"write", "hold"} -> OpenForWrite(f, p)
      [] prog.write = "delete" -> Remove(f)
      [] prog.write = "mkdir" -> Mkdir(f)

\* how the code ends: with the exception of its file operation, if that
\* raised, and else as the program says
CodeEnd(prog, raised) == IF raised # "none" THEN raised ELSE prog.end

\* open("output.png", "rb"): a file is opened as it is; the call raises
\* FileNotFoundError when there is none and IsADirectoryError on a directory
OpenForRead(f) ==
    CASE f.kind = "file" -> Done(f)
      [] f.kind = "absent" -> Raised(f, "FileNotFoundError")
      [] f.kind = "dir" -> Raised(f, "IsADirectoryError")

\* One read call of f.read() at offset off of a file holding data: the
\* bytes from the offset to the end of the file as it is now; none at the
\* end of the file, which ends f.read().
ReadCall(data, off) == SubSeq(data, off + 1, Len(data))

\* the result dict: the keys present and their values
EmptyResult == [keys |-> {}, image |-> <<>>, error |-> <<>>]

\* traceback.format_exc(): the lines of the trace
FormatExc(exc) == <<"Traceback (most recent call last):", exc>>

\* output["error"] = traceback.format_exc() on a dict d
WithError(d, exc) == [d EXCEPT !.keys = @ \cup {"error"}, !.error = FormatExc(exc)]

\* Faulty variant for C3: an empty read taken for no artifact.
WithImageSkipsEmpty(d, data) ==
    IF data = <<>>
    THEN d
    ELSE [d EXCEPT !.keys = @ \cup {"image"}, !.image = data]

\* output["image"] = f.read() on a dict d
WithImage(d, data) == [d EXCEPT !.keys = @ \cup {"image"}, !.image = data]

\* safe_execute_code returns to its caller: the exception of the code, if
\* any, was caught
Returns(end) == end = "ok" \/ IsException(end)

\* Faulty variant for C1: the artifact check done after the "except" too,
\* as in a "finally".
ChecksArtifactAlways(end) == Returns(end)

\* the artifact check (lines 111-117) is reached: exec did not raise
ChecksArtifact(end) == end = "ok"

\* the dict when exec has ended with end, before the artifact check
ExecOutput(end) ==
    IF IsException(end) THEN WithError(EmptyResult, end) ELSE EmptyResult

-----------------------------------------------------------------------------
(* The callers' result handling.                                           *)

\* os.path.exists("output.png")
Exists(f) == f.kind # "absent"

\* What st.image and st.download_button (app.py lines 91-98) do with the
\* image bytes: both return, or st.image raises (bytes it cannot decode),
\* or st.download_button raises with the image on the page. The source
\* does not decide which, so every outcome is taken.
Displays == {"shown", "image raises", "button raises"}

\* app.py lines 90-108 after safe_execute_code returned r, the display
\* calls doing d: the widgets shown, st.error of line 111 included. st.error,
\* st.code and st.info are taken to return normally.
AppShown(r, d) ==
    IF "image" \in r.keys
    THEN CASE d = "shown" -> {"image"}
           [] d = "image raises" -> {"error"}
           [] d = "button raises" -> {"image", "error"}
    ELSE IF "error" \in r.keys THEN {"error"}
    ELSE {"info"}

\* the clean-up of lines 99-101 is reached: the image branch is taken and
\* nothing before the clean-up raised
CleansUp(r, d) == "image" \in r.keys /\ d = "shown"

\* main() after safe_execute_code returned r: what it prints
MainShown(r) ==
    IF "image" \in r.keys THEN {"image"}
    ELSE IF "error" \in r.keys THEN {"error"}
    ELSE {"info"}

-----------------------------------------------------------------------------
(* The pipeline as steps of a session. Between any two of them another     *)
(* session of the same working directory can take its own: the code starts *)
(* and opens output.png, writes it in one or more pieces, ends;            *)
(* safe_execute_code opens the artifact, reads it in one or more calls and *)
(* returns; the caller shows the result; the app tests that output.png     *)
(* exists, and removes it.                                                 *)

\* the failure messages an endpoint raises with
Msgs == SeqsUpTo(MsgChars, MaxMsg)

\* the credentials: none, and a key
ApiKeys == {<<>>, <<"k">>}

\* the two callers of the pipeline
Callers == {"app", "main"}

\* The programs the generator's fallback fragments are. The app passes the
\* saved key, which is not empty; main() passes os.environ.get(...), which
\* may be missing.
FallbackFragments(keys) ==
    {GenerateAnalysisCode(k, Endpoint(c, "raise", m, <<>>)) :
        k \in keys, c \in {"ok", "raise"}, m \in Msgs}

AppFallbackPrograms == {Interpret(t) : t \in FallbackFragments(ApiKeys \ {<<>>})}
MainFallbackPrograms == {Interpret(t) : t \in FallbackFragments(ApiKeys)}

\* A session that has not run the pipeline. open says that its code opened
\* output.png for writing; ino is the file its code holds open for
\* writing, off the number of bytes written to it; rino is the file the
\* artifact check holds open for reading, got the bytes read; end is how
\* the code ends, left is output.png as the code's last write left it;
\* disturbed says that another session has changed a file between the
\* start of the code and the end of the artifact check.
IdleInv ==
    [pc |-> "idle", caller |-> "none", failed |-> FALSE,
     code |-> Program("none", <<>>, "ok"), open |-> FALSE, off |-> 0,
     ino |-> 0, rino |-> 0, end |-> "ok", got |-> <<>>, disturbed |-> FALSE,
     status |-> "none", result |-> EmptyResult, shown |-> {}, left |-> Absent]

\* the variables of the other parts of the model, which the pipeline leaves alone
NoGen == [pc |-> "none"]
NoFence == [pc |-> "none"]
NoSession == [pc |-> "none"]

\* no file has lost its name while open
NoOrphans == [i \in Procs |-> <<>>]

\* output.png is the file ino
Named(f, ino) == f.kind = "file" /\ f.ino = ino

\* session record i holds file ino open, for writing or for reading
Holds(i, ino) == ino # 0 /\ (i.ino = ino \/ i.rino = ino)

\* The files without a name after output.png changed from f to g: a file
\* that loses its name while a session holds it open lives on, for the
\* sessions that hold it.
Unlink(o, f, g) ==
    IF f.kind = "file" /\ g.kind # "file"
       /\ \E q \in Procs : Holds(inv[q], f.ino)
    THEN [o EXCEPT ![f.ino] = f.data]
    ELSE o

\* The files without a name after a handle of file ino is closed: a file
\* with no name that no session holds any more is gone.
Release(o, ino) ==
    IF ino # 0 /\ ~Named(file', ino)
       /\ \A q \in Procs : ~Holds(inv'[q], ino)
    THEN [o EXCEPT ![ino] = <<>>]
    ELSE o

\* the bytes of the files without a name after chunk is written at off to
\* file ino
WriteOrphan(o, f, ino, off, chunk) ==
    IF Named(f, ino) THEN o ELSE [o EXCEPT ![ino] = Overwrite(@, off, chunk)]

\* where safe_execute_code goes when its dict is made: it returns, dropping
\* execution_globals and with it the handle the code kept, if any
Leaving(i) == IF i.ino # 0 THEN "dropping" ELSE "returned"

\* the bytes of file ino
DataOf(f, o, ino) == IF Named(f, ino) THEN f.data ELSE o[ino]

\* session record i is between the start of its code and the end of its
\* artifact check
InWindow(i) == i.pc \in {"running", "execd", "reading"}

\* The sessions after a step of session p that takes it to rec: a session
\* in its window is disturbed when the step changed a file.
AfterStep(p, rec, changed) ==
    [q \in Procs |->
        IF q = p THEN rec
        ELSE IF InWindow(inv[q]) /\ changed
             THEN [inv[q] EXCEPT !.disturbed = TRUE]
             ELSE inv[q]]

\* Session p, called by caller, gets prog from the generator (failed: as a
\* fallback fragment), and exec runs the code up to and with the first
\* thing it does to output.png. What comes before (the call of the
\* endpoint, the start of exec) touches nothing the sessions share.
StartExec(p, caller, failed, prog) ==
    /\ inv[p].pc \in {"idle", "handled"}
    /\ LET call == FirstCall(prog, file, p)
           opened == prog.write \in {"write", "hold"} /\ call.raised = "none"
       IN /\ file' = call.file
          /\ orphans' = Unlink(orphans, file, call.file)
          /\ inv' = AfterStep(p,
                        [IdleInv EXCEPT !.pc = "running", !.caller = caller,
                                        !.failed = failed, !.code = prog,
                                        !.open = opened,
                                        !.ino = IF opened THEN call.file.ino
                                                ELSE 0,
                                        !.end = CodeEnd(prog, call.raised)],
                        call.file # file)

\* the endpoint answered: the code is whatever the model wrote
ExecGenerated(p) ==
    /\ \E caller \in Callers, prog \in Programs : StartExec(p, caller, FALSE, prog)
    /\ UNCHANGED <<gen, fence, session, calls>>

\* the generator failed: the code is its fallback fragment
ExecFallback(p) ==
    /\ \/ \E prog \in AppFallbackPrograms : StartExec(p, "app", TRUE, prog)
       \/ \E prog \in MainFallbackPrograms : StartExec(p, "main", TRUE, prog)
    /\ UNCHANGED <<gen, fence, session, calls>>

\* the code writes the next piece of its data to the file it opened
WriteChunk(p) ==
    /\ inv[p].pc = "running"
    /\ inv[p].open
    /\ inv[p].code.write = "write"
    /\ \E n \in 1..(Len(inv[p].code.data) - inv[p].off) :
          LET chunk == SubSeq(inv[p].code.data, inv[p].off + 1, inv[p].off + n)
          IN /\ file' = WriteAt(file, inv[p].ino, inv[p].off, chunk)
             /\ orphans' = WriteOrphan(orphans, file, inv[p].ino,
                                        inv[p].off, chunk)
             /\ inv' = AfterStep(p, [inv[p] EXCEPT !.off = @ + n],
                                 \/ file' # file
                                 \/ orphans' # orphans)
    /\ UNCHANGED <<gen, fence, session, calls>>

\* The code ends, normally or raising. A "write" has written all its data
\* and closed the file, or its open raised; a "hold" has written nothing
\* to output.png yet and keeps its handle.
EndExec(p) ==
    /\ inv[p].pc = "running"
    /\ (inv[p].open /\ inv[p].code.write = "write") =>
           inv[p].off = Len(inv[p].code.data)
    /\ inv' = [inv EXCEPT ![p].pc = "execd",
                          ![p].ino = IF inv[p].code.write = "hold" THEN @ ELSE 0,
                          ![p].left = file]
    /\ file' = file
    /\ orphans' = Release(orphans, inv[p].ino)
    /\ UNCHANGED <<gen, fence, session, calls>>

\* Lines 107-121 after exec: an exception that is no Exception leaves
\* safe_execute_code; an Exception is caught, and the dict returned; else
\* the artifact check opens output.png, and the dict is returned when
\* that raises.
OpenArtifact(p) ==
    /\ inv[p].pc = "execd"
    /\ LET end == inv[p].end
           out == ExecOutput(end)
           call == OpenForRead(file)
       IN inv' = [inv EXCEPT ![p] =
              CASE ~Returns(end) ->
                       [@ EXCEPT !.pc = "returned", !.status = "propagated"]
                [] Returns(end) /\ ~ChecksArtifact(end) ->
                       [@ EXCEPT !.pc = Leaving(inv[p]), !.status = "returned",
                                 !.result = out]
                [] ChecksArtifact(end) /\ call.raised = "none" ->
                       [@ EXCEPT !.pc = "reading", !.rino = file.ino,
                                 !.result = out]
                [] ChecksArtifact(end) /\ call.raised = "FileNotFoundError" ->
                       [@ EXCEPT !.pc = Leaving(inv[p]), !.status = "returned",
                                 !.result = out]
                [] OTHER ->
                       [@ EXCEPT !.pc = Leaving(inv[p]), !.status = "returned",
                                 !.result = WithError(out, call.raised)]]
    /\ UNCHANGED <<file, orphans, gen, fence, session, calls>>

\* Line 113, f.read(): one read call on the open file. It gives the bytes
\* the file holds past those read so far; when there are none, f.read()
\* returns what it has, the file is closed and safe_execute_code returns.
ReadArtifact(p) ==
    /\ inv[p].pc = "reading"
    /\ file' = file
    /\ LET more == ReadCall(DataOf(file, orphans, inv[p].rino), Len(inv[p].got))
       IN IF more # <<>>
          THEN /\ inv' = [inv EXCEPT ![p].got = @ \o more]
               /\ orphans' = orphans
          ELSE /\ inv' = [inv EXCEPT ![p].pc = Leaving(inv[p]),
                                     ![p].status = "returned",
                                     ![p].rino = 0,
                                     ![p].result = WithImage(@, inv[p].got)]
               /\ orphans' = Release(orphans, inv[p].rino)
    /\ UNCHANGED <<gen, fence, session, calls>>

\* Line 123, the return: execution_globals is dropped, and the handle the
\* code kept is closed, which writes its buffered data to the file it
\* opened.
DropGlobals(p) ==
    /\ inv[p].pc = "dropping"
    /\ file' = WriteAt(file, inv[p].ino, 0, inv[p].code.data)
    /\ inv' = AfterStep(p, [inv[p] EXCEPT !.pc = "returned", !.ino = 0,
                                          !.off = Len(inv[p].code.data),
                                          !.left = file'],
                        \/ file' # file
                        \/ WriteOrphan(orphans, file, inv[p].ino, 0,
                                       inv[p].code.data) # orphans)
    /\ orphans' = Release(WriteOrphan(orphans, file, inv[p].ino, 0,
                                      inv[p].code.data), inv[p].ino)
    /\ UNCHANGED <<gen, fence, session, calls>>

\* app.py lines 89-98 and 102-108: the result is shown. An exception that
\* left safe_execute_code is no Exception, so it leaves the script too and
\* nothing is shown or removed. When a display call raises, line 110
\* catches it and the clean-up is not reached.
AppHandle(p) ==
    /\ inv[p].pc = "returned"
    /\ inv[p].caller = "app"
    /\ IF inv[p].status = "returned"
       THEN \E d \in Displays :
               /\ "image" \notin inv[p].result.keys => d = "shown"
               /\ inv' = [inv EXCEPT ![p].pc = IF CleansUp(inv[p].result, d)
                                               THEN "exists" ELSE "handled",
                                     ![p].shown = AppShown(inv[p].result, d)]
       ELSE inv' = [inv EXCEPT ![p].pc = "handled"]
    /\ UNCHANGED <<file, orphans, gen, fence, session, calls>>

\* app.py line 100: os.path.exists("output.png")
AppExists(p) ==
    /\ inv[p].pc = "exists"
    /\ inv' = [inv EXCEPT ![p].pc = IF Exists(file) THEN "remove" ELSE "handled"]
    /\ UNCHANGED <<file, orphans, gen, fence, session, calls>>

\* app.py line 101: os.remove("output.png"); when it raises, line 110
\* catches the exception and st.error shows it under the image
AppRemove(p) ==
    /\ inv[p].pc = "remove"
    /\ file' = Remove(file).file
    /\ orphans' = Unlink(orphans, file, Remove(file).file)
    /\ inv' = AfterStep(p, [inv[p] EXCEPT
                               !.pc = "handled",
                               !.shown = IF Remove(file).raised # "none"
                                         THEN @ \cup {"error"} ELSE @],
                        file' # file)
    /\ UNCHANGED <<gen, fence, session, calls>>

\* main() lines 158-166, which never removes output.png
MainHandle(p) ==
    /\ inv[p].pc = "returned"
    /\ inv[p].caller = "main"
    /\ inv' = [inv EXCEPT ![p].pc = "handled",
                          ![p].shown = IF inv[p].status = "returned"
                                       THEN MainShown(inv[p].result)
                                       ELSE {}]
    /\ UNCHANGED <<file, orphans, gen, fence, session, calls>>

\* the steps of a pipeline run that has started, up to the caller
ExecStep(p) ==
    \/ WriteChunk(p)
    \/ EndExec(p)
    \/ OpenArtifact(p)
    \/ ReadArtifact(p)
    \/ DropGlobals(p)

\* the steps of the app after safe_execute_code
AppStep(p) ==
    \/ AppHandle(p)
    \/ AppExists(p)
    \/ AppRemove(p)

PipelineStep(p) ==
    \/ ExecStep(p)
    \/ AppStep(p)
    \/ MainHandle(p)

\* One session after another: the pipeline runs again and again in one
\* working directory, each run finished before the next starts.
SeqInit ==
    /\ file = Absent
    /\ orphans = NoOrphans
    /\ inv = [p \in Procs |-> IdleInv]
    /\ gen = NoGen
    /\ fence = NoFence
    /\ session = NoSession
    /\ calls = {}

SeqNext ==
    \/ ExecGenerated(1)
    \/ ExecFallback(1)
    \/ PipelineStep(1)

SpecSeq == SeqInit /\ [][SeqNext]_vars

\* Two sessions in one working directory, each running the pipeline once,
\* their steps interleaved. The sessions run generated code that ends
\* normally unless a file operation of it raises: a fallback fragment does
\* to output.png what generated code that leaves it alone does, and code
\* that raises after its file operation does to it what the same code
\* ending normally under main() does, whose artifact check only reads.
ConcNext ==
    \E p \in Procs :
        \/ /\ inv[p].pc = "idle"
           /\ ExecGenerated(p)
           /\ inv'[p].code.end = "ok"
        \/ PipelineStep(p)

SpecConc == SeqInit /\ [][ConcNext]_vars

-----------------------------------------------------------------------------
(* generate_analysis_code on its own: every credential and every endpoint. *)

\* the responses of an endpoint that answers
Responses == {<<>>, <<"e">>, FenceMarker \o <<"\n", "e">>}

\* the endpoints: configuration fails, the completion call fails, or the
\* endpoint answers
Endpoints ==
    {Endpoint("raise", "ok", m, <<>>) : m \in Msgs}
    \cup {Endpoint("ok", "raise", m, <<>>) : m \in Msgs}
    \cup {Endpoint("ok", "ok", <<>>, r) : r \in Responses}

\* the call fails: it takes one of the two "except Exception" branches
GenFails(key, ep) == key = <<>> \/ ep.configure = "raise" \/ ep.call = "raise"

\* str(e) of the exception the failing call handles
FailureMessage(key, ep) == IF key = <<>> THEN MissingKeyMessage ELSE ep.msg

GenInit ==
    /\ gen \in {[pc |-> "called", key |-> k, ep |-> ep, out |-> <<>>] :
                   k \in ApiKeys, ep \in Endpoints}
    /\ file = Absent
    /\ orphans = NoOrphans
    /\ inv = [p \in Procs |-> IdleInv]
    /\ fence = NoFence
    /\ session = NoSession
    /\ calls = {}

\* the call returns
Generate ==
    /\ gen.pc = "called"
    /\ gen' = [gen EXCEPT !.pc = "returned",
                          !.out = GenerateAnalysisCode(gen.key, gen.ep)]
    /\ UNCHANGED <<file, orphans, inv, fence, session, calls>>

SpecGen == GenInit /\ [][Generate]_vars

-----------------------------------------------------------------------------
(* Fence stripping: the generator on a response with the code in a fenced  *)
(* block and on the response that is the code alone.                       *)

\* the characters of a code body: a plain one, the fence character, and
\* whitespace (a space, a line break, a vertical tab)
BodyChars == {"e", Backtick, " ", "\n", "VT"}

\* the bodies: the short ones, and those that begin with the marker of a
\* python fence themselves
Bodies ==
    SeqsUpTo(BodyChars, MaxBody)
    \cup {FenceMarker \o b : b \in SeqsUpTo(BodyChars, MaxBody - 2)}

\* what follows the closing fence in the response
Tails == {<<>>, <<"\n">>, <<"\n", "e">>}

\* body in a fenced code block tagged python
Fenced(body) ==
    FenceMarker \o <<"\n">> \o body \o <<"\n", Backtick, Backtick, Backtick>>

\* an endpoint that answers with text
Answering(text) == Endpoint("ok", "ok", <<>>, text)

FenceInit ==
    /\ fence \in {[done |-> {}, body |-> b, tail |-> t, fenced |-> <<>>,
                   bare |-> <<>>] : b \in Bodies, t \in Tails}
    /\ file = Absent
    /\ orphans = NoOrphans
    /\ inv = [p \in Procs |-> IdleInv]
    /\ gen = NoGen
    /\ session = NoSession
    /\ calls = {}

\* the generator's return value when the response holds the body fenced
GenerateFenced ==
    /\ "fenced" \notin fence.done
    /\ fence' = [fence EXCEPT
                    !.done = @ \cup {"fenced"},
                    !.fenced = GenerateAnalysisCode(
                        <<"k">>, Answering(Fenced(fence.body) \o fence.tail))]
    /\ UNCHANGED <<file, orphans, inv, gen, session, calls>>

\* the generator's return value when the response is the body alone
GenerateBare ==
    /\ "bare" \notin fence.done
    /\ fence' = [fence EXCEPT
                    !.done = @ \cup {"bare"},
                    !.bare = GenerateAnalysisCode(<<"k">>, Answering(fence.body))]
    /\ UNCHANGED <<file, orphans, inv, gen, session, calls>>

FenceNext == GenerateFenced \/ GenerateBare

SpecFence == FenceInit /\ [][FenceNext]_vars

-----------------------------------------------------------------------------
(* The app session: the API key in the sidebar, the uploader, the prompt   *)
(* and the Generate Analysis button. The user acts when the rerun of       *)
(* app.py that the previous action started has ended.                      *)

\* what the user can type as a key
KeyTexts == {<<>>, <<"a">>, <<"b">>}

\* what the user can type as a prompt
PromptTexts == {<<>>, <<"q">>}

\* st.session_state and the widgets of a fresh session. valid is
\* st.session_state.get("is_key_valid"): "unset", "true" or "false".
\* accepted, lastAccepted and lastAttempt record what validate_api_key
\* answered: the keys it accepted, the last one it accepted, and whether
\* its last answer was yes ("ok"), no ("failed") or there was none.
FreshSession ==
    [input |-> <<>>, api_key |-> <<>>, valid |-> "unset", uploaded |-> "none",
     prompt |-> <<>>, notice |-> "none", accepted |-> {},
     lastAccepted |-> <<>>, lastAttempt |-> "none"]

\* Faulty variant for C8: the button without line 39, so that a failed
\* validation leaves the flag as it was.
ValidateAndSaveKeepsFlag(s, ok) ==
    IF ok THEN [s EXCEPT !.api_key = s.input, !.valid = "true"] ELSE s

\* The Validate and Save Key button, lines 31-40: validate_api_key answered
\* ok for the key in the text input.
ValidateAndSave(s, ok) ==
    IF ok
    THEN [s EXCEPT !.api_key = s.input, !.valid = "true"]
    ELSE [s EXCEPT !.valid = "false"]

\* line 43: the main logic runs
MainLogicRuns(s) == s.valid = "true"

\* line 72: the Generate Analysis button starts the pipeline
PromptGiven(s) == s.prompt # <<>>

\* the record of one pipeline invocation: the arguments of
\* generate_analysis_code, and what validate_api_key had answered by then
CallOf(s) ==
    [prompt |-> s.prompt, key |-> s.api_key, accepted |-> s.accepted,
     lastAccepted |-> s.lastAccepted, lastAttempt |-> s.lastAttempt]

\* no rerun of the session is under way
Settled == inv[1].pc \in {"idle", "handled"}

AppInit ==
    /\ session = FreshSession
    /\ calls = {}
    /\ file = Absent
    /\ orphans = NoOrphans
    /\ inv = [p \in Procs |-> IdleInv]
    /\ gen = NoGen
    /\ fence = NoFence

\* the user edits the key in the sidebar
TypeKey(k) ==
    /\ Settled
    /\ session' = [session EXCEPT !.input = k, !.notice = "none"]
    /\ UNCHANGED <<file, orphans, inv, gen, fence, calls>>

\* the user clicks Validate and Save Key; validate_api_key answers ok
ClickValidate(ok) ==
    /\ Settled
    /\ session.input # <<>>
    /\ session' =
          [ValidateAndSave(session, ok) EXCEPT
              !.notice = IF ok THEN "key saved" ELSE "key invalid",
              !.accepted = IF ok THEN @ \cup {session.input} ELSE @,
              !.lastAccepted = IF ok THEN session.input ELSE @,
              !.lastAttempt = IF ok THEN "ok" ELSE "failed"]
    /\ UNCHANGED <<file, orphans, inv, gen, fence, calls>>

\* the user uploads a file that parses (ok) or not (bad), or removes it
Upload(u) ==
    /\ Settled
    /\ MainLogicRuns(session)
    /\ session' = [session EXCEPT !.uploaded = u, !.notice = "none"]
    /\ UNCHANGED <<file, orphans, inv, gen, fence, calls>>

\* the user edits the prompt
TypePrompt(q) ==
    /\ Settled
    /\ MainLogicRuns(session)
    /\ session.uploaded = "ok"
    /\ session' = [session EXCEPT !.prompt = q, !.notice = "none"]
    /\ UNCHANGED <<file, orphans, inv, gen, fence, calls>>

\* the user clicks Generate Analysis without a prompt
ClickGenerateWarned ==
    /\ Settled
    /\ MainLogicRuns(session)
    /\ session.uploaded = "ok"
    /\ ~PromptGiven(session)
    /\ session' = [session EXCEPT !.notice = "enter a prompt"]
    /\ UNCHANGED <<file, orphans, inv, gen, fence, calls>>

\* the user clicks Generate Analysis: the pipeline starts, with the code
\* of the model or with the fallback fragment of a generator that failed
ClickGenerate ==
    /\ MainLogicRuns(session)
    /\ session.uploaded = "ok"
    /\ PromptGiven(session)
    /\ calls' = calls \cup {CallOf(session)}
    /\ \/ \E prog \in Programs : StartExec(1, "app", FALSE, prog)
       \/ \E prog \in AppFallbackPrograms : StartExec(1, "app", TRUE, prog)
    /\ session' = [session EXCEPT !.notice = "result"]
    /\ UNCHANGED <<gen, fence>>

AppNext ==
    \/ \E k \in KeyTexts : TypeKey(k)
    \/ \E ok \in BOOLEAN : ClickValidate(ok)
    \/ \E u \in {"none", "ok", "bad"} : Upload(u)
    \/ \E q \in PromptTexts : TypePrompt(q)
    \/ ClickGenerateWarned
    \/ ClickGenerate
    \/ ExecStep(1)
    \/ AppStep(1)

SpecApp == AppInit /\ [][AppNext]_vars

-----------------------------------------------------------------------------
(* The properties of the executor, one session after another (SpecSeq).    *)

\* safe_execute_code has ended in session p
Ended(p) == inv[p].pc \in {"returned", "exists", "remove", "handled"}

\* C1: every invocation of safe_execute_code that returns gives a dict with
\* only 'image', only 'error' or no key, never both keys; when the code
\* raised, the dict holds 'error' alone.
C1_ResultShape ==
    \A p \in Procs :
        (Ended(p) /\ inv[p].status = "returned") =>
            /\ inv[p].result.keys \in {{}, {"image"}, {"error"}}
            /\ (inv[p].end # "ok" => inv[p].result.keys = {"error"})

\* C1, its case: code wrote output.png and raised; the file is there, and
\* the dict holds the error alone
C1_Witness ==
    \E p \in Procs :
        /\ Ended(p) /\ inv[p].status = "returned"
        /\ inv[p].open /\ inv[p].end = "ValueError"
        /\ inv[p].left.kind = "file"
        /\ inv[p].result.keys = {"error"}

\* C2 as claimed: after any earlier invocations, code that runs to
\* completion and does not touch output.png gets a dict with neither
\* 'image' nor 'error'.
C2_NoArtifactGivesEmpty ==
    \A p \in Procs :
        (Ended(p) /\ inv[p].code.write = "none" /\ inv[p].end = "ok") =>
            (inv[p].status = "returned" /\ inv[p].result.keys = {})

\* C3 as claimed: code that writes output.png gets a dict with a non-empty
\* 'image', the file's contents, and no 'error', however the code ends and
\* whatever it wrote.
C3_WriteGivesImage ==
    \A p \in Procs :
        (Ended(p) /\ inv[p].open) =>
            /\ inv[p].status = "returned"
            /\ inv[p].result.keys = {"image"}
            /\ inv[p].result.image = inv[p].code.data
            /\ inv[p].result.image # <<>>

\* the bytes of the code's data that are in output.png when exec has
\* ended: all when the code closed the file, none when it holds the handle
Flushed(prog) == IF prog.write = "write" THEN prog.data ELSE <<>>

\* C3 amended: code that writes output.png and runs to completion gets a
\* dict with 'image' alone, holding exactly the bytes it wrote and flushed
\* by then (none, when it wrote none or keeps them in an open handle); code
\* that writes it and then raises an Exception gets a dict with 'error'
\* alone.
C3_WriteThenEndGivesImage ==
    \A p \in Procs :
        (Ended(p) /\ inv[p].open) =>
            /\ inv[p].end = "ok" =>
                  /\ inv[p].status = "returned"
                  /\ inv[p].result.keys = {"image"}
                  /\ inv[p].result.image = Flushed(inv[p].code)
            /\ IsException(inv[p].end) =>
                  /\ inv[p].status = "returned"
                  /\ inv[p].result.keys = {"error"}

\* C3, its case: code wrote zero bytes and ended; the dict holds an empty
\* image
C3_Witness ==
    \E p \in Procs :
        /\ Ended(p)
        /\ inv[p].code = Program("write", <<>>, "ok")
        /\ inv[p].result.keys = {"image"}
        /\ inv[p].result.image = <<>>

\* C4 as claimed: whenever the code raises, of whatever kind,
\* safe_execute_code catches it and returns a dict with a non-empty 'error'
\* and no 'image'; nothing reaches the caller.
C4_RaiseIsCaught ==
    \A p \in Procs :
        (Ended(p) /\ inv[p].end # "ok") =>
            /\ inv[p].status = "returned"
            /\ inv[p].result.keys = {"error"}
            /\ inv[p].result.error # <<>>

\* C6 as claimed: when the generator failed, the caller shows the failure
\* as an error, not as "no visual output" and not as an image.
C6_FailureShownAsError ==
    \A p \in Procs :
        (inv[p].pc = "handled" /\ inv[p].failed) => inv[p].shown = {"error"}

\* C10 as claimed: safe_execute_code leaves output.png as the executed
\* code left it; the app removes it when the result holds 'image' and only
\* then, so that after an error or an empty result (and after main()) it
\* is as the code left it.
C10_ArtifactLifecycle ==
    \A p \in Procs :
        /\ inv[p].pc \in {"returned", "exists", "remove"} => file = inv[p].left
        /\ inv[p].pc = "handled" =>
              IF inv[p].caller = "app" /\ "image" \in inv[p].result.keys
              THEN file = Absent /\ inv[p].left.kind = "file"
              ELSE file = inv[p].left

-----------------------------------------------------------------------------
(* The property of the sessions that interleave (SpecConc).                *)

\* the byte of data at position i, or none
ByteAt(data, i) == IF i <= Len(data) THEN {data[i]} ELSE {}

\* C9: output.png has one name for all sessions, so what a session gets is
\* what the file holds while it is read. A session whose code wrote the
\* file and ended gets as its image the bytes its code wrote and flushed (all
\* of them when the code closed the file), unless another session
\* changed a file between the start of its code and the end of its
\* artifact check. Then it gets no image, or an image made of the bytes the
\* two sessions' code wrote, each at its place, and of zeros where neither
\* had written yet, no longer than the longer of the two.
C9_SharedArtifact ==
    \A p \in Procs :
        (Ended(p) /\ inv[p].open /\ inv[p].end = "ok") =>
            \/ /\ inv[p].result.keys = {"image"}
               /\ inv[p].result.image = Flushed(inv[p].code)
            \/ /\ inv[p].disturbed
               /\ inv[p].result.keys \in {{}, {"image"}}
               /\ \E q \in Procs \ {p} :
                     "image" \in inv[p].result.keys =>
                        /\ inv[q].open
                        /\ \/ Len(inv[p].result.image) <= Len(inv[p].code.data)
                           \/ Len(inv[p].result.image) <= Len(inv[q].code.data)
                        /\ \A i \in 1..Len(inv[p].result.image) :
                              inv[p].result.image[i] \in
                                  ByteAt(inv[p].code.data, i)
                                  \cup ByteAt(inv[q].code.data, i) \cup {0}

\* C9, the race: both sessions' code wrote output.png and ended; one got
\* the other's bytes as its image, the other got no image at all
C9_Witness ==
    \E p \in Procs : \E q \in Procs \ {p} :
        /\ Ended(p) /\ Ended(q)
        /\ inv[p].open /\ inv[p].end = "ok"
        /\ inv[q].open /\ inv[q].end = "ok"
        /\ inv[p].code.data # inv[q].code.data
        /\ inv[p].result.keys = {"image"}
        /\ inv[p].result.image = inv[q].code.data
        /\ inv[q].result.keys = {}

-----------------------------------------------------------------------------
(* The properties of the generator (SpecGen, SpecFence).                   *)

\* C5 as claimed: whenever configuration or the completion call fails,
\* whatever the message, the generator returns one line that is
\* syntactically executable and prints a text holding the message.
C5_FallbackExecutable ==
    (gen.pc = "returned" /\ GenFails(gen.key, gen.ep)) =>
        /\ SingleLine(gen.out)
        /\ Executable(gen.out)
        /\ Contains(Printed(gen.out), FailureMessage(gen.key, gen.ep))

\* C7 as claimed: for every body, the generator's output for the response
\* holding the body in a python fence is the output for the body alone.
C7_RoundTrip ==
    fence.done = {"fenced", "bare"} => fence.fenced = fence.bare

-----------------------------------------------------------------------------
(* The property of the app session (SpecApp).                              *)

\* C8: the pipeline is invoked only with a prompt that is not empty and
\* with a key that is not empty, that validate_api_key accepted, and after
\* which no validation failed: it is the key of the last validation, which
\* succeeded.
C8_PipelineGuarded ==
    \A c \in calls :
        /\ c.prompt # <<>>
        /\ c.key # <<>>
        /\ c.key \in c.accepted
        /\ c.lastAttempt = "ok"
        /\ c.key = c.lastAccepted

\* C8, its case: the pipeline ran with one key, a validation failed, and
\* the pipeline ran again with another key
C8_Witness ==
    \E c \in calls : \E d \in calls :
        /\ c.key # d.key
        /\ Cardinality(d.accepted) = 2
        /\ session.lastAttempt = "failed"

====
